---- MODULE Spec2Model ----
(***************************************************************************)
(* API gateway request dispatch: the per-service circuit breaker           *)
(* (app/core/circuit_breaker.py) and the proxy that runs every backend     *)
(* call under it (app/services/proxy.py).                                  *)
(*                                                                         *)
(* The gateway is one asyncio event loop.  A coroutine runs without        *)
(* interruption until it awaits something that is not ready.  The          *)
(* breaker's lock is only ever held over code that has no such await, so   *)
(* it is never contended and "async with self._lock" never suspends.  A    *)
(* proxied request therefore runs in two atomic steps: everything up to    *)
(* the backend I/O inside the protected operation (Enter), and everything  *)
(* from the backend's outcome to the gateway's answer (Complete).  Other   *)
(* requests and the clock may take steps in between.                       *)
(*                                                                         *)
(* Further parts, each explored by a specification of its own: two        *)
(* services side by side and the metrics route (SpecPair), the service     *)
(* registry and its health sweeps (app/services/discovery.py: SpecDisc,    *)
(* SpecSweep, SpecPick), the way of one request through the middleware     *)
(* stack to its route and the backend (app/main.py, app/middleware,        *)
(* app/services: SpecEdge), the rate limiter                               *)
(* (app/middleware/rate_limit.py: SpecRate), the health service and its    *)
(* cache (app/services/health.py: SpecHealth) and the breaker in front of  *)
(* a backend that has healed (SpecHeal).                                   *)
(***************************************************************************)
EXTENDS Integers, FiniteSets, Sequences, TLC

\* ---------------------------------------------------------------- bounds
\* The clock when the registry's behaviour is explored from, the seconds
\* it advances between sweeps, and the last value explored.
DiscStart == 31
DiscTickStep == 31
DiscMaxTime == 155
\* Instances one service may hold, and get_service_instance calls explored.
MaxInstances == 3
MaxPicks == 5
\* Seconds the clock advances in one Tick step.
TickStep == 30
\* Last clock value explored.
MaxTime == 151
\* Backend invocations explored, over all services.
MaxCalls == 8
\* Two services: backend calls explored, and the last second of the clock.
PairMaxCalls == 6
PairMaxTime == 61
\* The last second explored at the health service, and the last second of
\* each day explored there.
HealthMaxTime == 86461
HealthMaxSecond == 61
\* Inbound requests explored at the gateway edge.
MaxEdgeRequests == 2
\* The last second explored by the rate limiter, and the requests it is sent.
RlMaxTime == 3
RlMaxRequests == 102

\* ------------------------------------------------------- program constants
\* settings.circuit_breaker_failure_threshold
failure_threshold == 5
\* settings.circuit_breaker_recovery_timeout
recovery_timeout == 60
\* settings.circuit_breaker_expected_recovery_time (stored by the breaker, read nowhere)
expected_recovery_time == 30
\* ServiceDiscovery.health_check_interval
health_check_interval == 30
\* ServiceDiscovery.max_failures
max_failures == 3
\* settings.rate_limit_requests
rate_limit_requests == 100
\* settings.rate_limit_window
rate_limit_window == 60
\* Durations a health probe may be measured to take.
RespTimes == {1, 2}

\* Service names a request may carry.
Names == {"auth", "sms", "nosuch"}
\* Concurrent inbound requests (asyncio tasks running proxy_request).
Tasks == {"t1", "t2"}

\* Backend status codes and bodies a backend may answer with.
Statuses == {200, 404, 500}
Bodies == {"b1", "b2"}

\* Exception classes the protected operation may raise.
ExcTypes == {"ConnectTimeout", "ReadTimeout", "ConnectError", "ReadError", "ValueError"}

\* The base class of each exception class (httpx's hierarchy, as the
\* except clauses of proxy_request see it).
Parent(c) ==
    CASE c = "ConnectTimeout" -> "TimeoutException"
      [] c = "ReadTimeout" -> "TimeoutException"
      [] c = "TimeoutException" -> "TransportError"
      [] c = "ConnectError" -> "NetworkError"
      [] c = "ReadError" -> "NetworkError"
      [] c = "NetworkError" -> "TransportError"
      [] c = "TransportError" -> "Exception"
      [] c = "CircuitBreakerOpenException" -> "Exception"
      [] c = "ValueError" -> "Exception"
      [] OTHER -> "BaseException"

RECURSIVE IsInstance(_, _)
\* isinstance(exception of class c, cls), as an except clause tests it.
IsInstance(c, cls) ==
    IF c = cls THEN TRUE
    ELSE IF c = "BaseException" THEN FALSE
    ELSE IsInstance(Parent(c), cls)

\* What the backend call of one request ends with: an HTTP response of any
\* status, or an exception.
Outcomes ==
    [kind : {"response"}, status : Statuses, body : Bodies, exc : {"-"}]
    \cup [kind : {"raise"}, status : {0}, body : {"-"}, exc : ExcTypes]

NoBreaker == [state |-> "absent"]

\* CircuitBreaker.__init__
NewBreaker ==
    [state |-> "closed", failure_count |-> 0, success_count |-> 0,
     last_failure_time |-> 0, last_success_time |-> 0, total_requests |-> 0]

VARIABLES
    services,     \* the keys of settings.services: the configured service names
    now,          \* time.time(), in seconds
    breakers,     \* CircuitBreakerManager._breakers: name -> breaker or NoBreaker
    pc,           \* per task: "idle", or "inflight" (awaiting the backend)
    target,       \* per task: the service of the request in flight
    admitted,     \* per task: the breaker's state when the call in flight was admitted
    invocations,  \* per service name: times the protected operation was invoked
    streak,       \* per service name: failed calls in a row since Closed with failure_count 0
    failedSince,  \* per service name: failed calls since its breaker was created or last became Closed
    requestCount, \* per service name: records made by metrics_collector.record_service_request
    response      \* the answer proxy_request produced in the last step, if any

\* The service registry (app/services/discovery.py) and the backends it probes.
VARIABLES
    strategy,     \* settings.load_balancing_strategy
    instances,    \* ServiceDiscovery.services: name -> list of ServiceInstance
    counters,     \* ServiceDiscovery._round_robin_counters: name -> count or NoCounter
    sweepPc,      \* periodic_health_checks: "check", "gather" (awaiting probes) or "sleep"
    pending,      \* the probes of the sweep in progress: <<name, url>> pairs
    healthyUrls,  \* the backend URLs that answer 200 on their health path
    picked,       \* what get_service_instance returned last
    picks,        \* per name: the URLs returned from its healthy instances since they last changed
    failedProbes  \* per <<name, url>>: failed probes in a row of the instance

discVars ==
    <<strategy, instances, counters, sweepPc, pending, healthyUrls, picked, picks,
      failedProbes>>

\* The gateway edge: one inbound request on its way through the middleware
\* stack (app/main.py) to its route handler and the backend.
VARIABLES
    edgeReq,      \* the request: its route and its headers as Starlette presents them
    edgePc,       \* "idle", "auth", "correlation", "route", "backend" or "done"
    edgeState,    \* request.state
    edgeOut,      \* the headers of the outbound backend request, once prepared
    edgeVia,      \* "-", or which of proxy_request ("proxy") and make_request ("client") was entered
    edgeResp,     \* the answer to the request: its status and who produced it
    edgeOutcome,  \* what the backend call of the request ended with
    edgeCount     \* requests received so far

edgeVars ==
    <<edgeReq, edgePc, edgeState, edgeOut, edgeVia, edgeResp, edgeOutcome, edgeCount>>

\* The rate limiter (app/middleware/rate_limit.py) and its Redis store.
VARIABLES
    rlStore,      \* per client: the sorted set rate_limit:<client>, member -> score
    rlPassed,     \* per client and second: requests handed on to the next handler
    rlLast        \* the last request's client and the status the limiter decided on

rateVars == <<rlStore, rlPassed, rlLast>>

\* The health service (app/services/health.py).
VARIABLES
    last_check_time,       \* HealthService.last_check_time: a second, or NoCheck
    cached_health_status,  \* HealthService.cached_health_status
    healthReply            \* what get_services_health returned last, and when

healthVars == <<last_check_time, cached_health_status, healthReply>>

\* The variables the registry does not touch, the proxy's aside.
nonDiscVars == <<edgeVars, rateVars, healthVars>>

\* The variables the proxy and the breaker do not touch.
nonProxyVars == <<discVars, edgeVars, rateVars, healthVars>>

proxyVars ==
    <<services, now, breakers, pc, target, admitted, invocations, streak,
      failedSince, requestCount, response>>

vars == <<proxyVars, nonProxyVars>>

NoOutcome == [kind |-> "-", status |-> 0, body |-> "-", exc |-> "-"]

NoResponse ==
    [task |-> "-", service |-> "-", status |-> 0, body |-> "-", detail |-> "-",
     exc |-> "-", outcome |-> NoOutcome]

\* Backend URLs: the one settings.services gives each service, and the
\* ones add_service_instance may be called with.
ConfigUrl(s) == "cfg-" \o s
ExtraUrls == {"u1", "u2"}
Urls == {ConfigUrl(s) : s \in Names} \cup ExtraUrls

\* The values settings.load_balancing_strategy is given: the three that
\* get_service_instance tests for, and the name the documentation uses.
Strategies == {"round_robin", "least_connections", "random", "least_response_time"}

NoCounter == -1
\* The None get_service_instance returns, as a record of the same shape.
NoInstance ==
    [name |-> "-", url |-> "None", last_health_check |-> 0, is_healthy |-> FALSE,
     response_time |-> 0, failure_count |-> 0]
NoPick == [service |-> "-", instance |-> NoInstance]

\* ServiceInstance as _initialize_services and add_service_instance build it.
NewInstance(s, u) ==
    [name |-> s, url |-> u, last_health_check |-> 0, is_healthy |-> TRUE,
     response_time |-> 0, failure_count |-> 0]

\* ServiceDiscovery.__init__: one instance per configured service.
InitDiscovery(cfg) ==
    /\ instances = [s \in Names |-> IF s \in cfg THEN <<NewInstance(s, ConfigUrl(s))>> ELSE <<>>]
    /\ counters = [s \in Names |-> NoCounter]
    /\ sweepPc = "check"
    /\ pending = {}
    /\ healthyUrls = Urls
    /\ picked = NoPick
    /\ picks = [s \in Names |-> <<>>]
    /\ failedProbes = [k \in Names \X Urls |-> 0]

\* Python's None where a string is expected: a header that was not sent,
\* an attribute of request.state that was not set.
None == "<none>"

\* A header map without entries.
NoHeaders == <<>>

NoRoute == [path |-> "-", handler |-> "-", service |-> "-", bearer |-> FALSE]

\* request.state of a request no middleware has touched.
NoState == [request_id |-> None, user_id |-> None, api_key |-> None, bearer_token |-> None]

NoEdgeResp == [status |-> 0, by |-> "-"]

\* No request has been received.
InitEdge ==
    /\ edgeReq = [route |-> NoRoute, headers |-> NoHeaders]
    /\ edgePc = "idle"
    /\ edgeState = NoState
    /\ edgeOut = NoHeaders
    /\ edgeVia = "-"
    /\ edgeResp = NoEdgeResp
    /\ edgeOutcome = NoOutcome
    /\ edgeCount = 0

\* The client identities requests are counted for.
Clients == {"ip:10.0.0.9"}

\* The seconds int(time.time()) takes while the limiter is explored.
RlTimes == 1..RlMaxTime

\* A sorted set without members.
EmptyZSet == <<>>

\* The limiter's store is empty.
InitRate ==
    /\ rlStore = [c \in Clients |-> EmptyZSet]
    /\ rlPassed = [c \in Clients |-> [t \in RlTimes |-> 0]]
    /\ rlLast = [client |-> "-", status |-> 0]

\* HealthService.last_check_time before the first check (None).
NoCheck == -1

\* HealthService.cached_health_status before the first check ({}).
NoHealthStatus == [overall_status |-> "-", services |-> <<>>, last_check |-> NoCheck]

\* HealthService.__init__
InitHealth ==
    /\ last_check_time = NoCheck
    /\ cached_health_status = NoHealthStatus
    /\ healthReply = [at |-> NoCheck, result |-> NoHealthStatus]

\* No breaker exists and no request is in flight.
InitBreakers ==
    /\ breakers = [s \in Names |-> NoBreaker]
    /\ pc = [t \in Tasks |-> "idle"]
    /\ target = [t \in Tasks |-> "-"]
    /\ admitted = [t \in Tasks |-> "-"]
    /\ invocations = [s \in Names |-> 0]
    /\ streak = [s \in Names |-> 0]
    /\ failedSince = [s \in Names |-> 0]
    /\ requestCount = [s \in Names |-> 0]
    /\ response = NoResponse

InitRuntime ==
    /\ now = 1
    /\ InitBreakers

\* A gateway configured with one backend service.
Init ==
    /\ services = {"auth"}
    /\ InitRuntime
    /\ strategy = "round_robin"
    /\ InitDiscovery({"auth"})
    /\ InitEdge
    /\ InitRate
    /\ InitHealth

\* ------------------------------------------------------- circuit breaker

\* Mutant: the reset check compares against expected_recovery_time.
ShouldAttemptReset_ExpectedRecovery(b, t) ==
    t - b.last_failure_time >= expected_recovery_time

\* CircuitBreaker._should_attempt_reset
ShouldAttemptReset(b, t) == t - b.last_failure_time >= recovery_timeout

\* Mutant: the check admits the probe without moving to Half-Open.
Gate_KeepsOpen(b, t) ==
    IF b.state = "open"
    THEN [breaker |-> b, admitted |-> t - b.last_failure_time >= recovery_timeout]
    ELSE [breaker |-> b, admitted |-> TRUE]

\* Mutant: a rejected call is counted in total_requests.
Gate_CountsRejection(b, t) ==
    IF b.state = "open"
    THEN IF ShouldAttemptReset(b, t)
         THEN [breaker |-> [b EXCEPT !.state = "half_open"], admitted |-> TRUE]
         ELSE [breaker |-> [b EXCEPT !.total_requests = @ + 1], admitted |-> FALSE]
    ELSE [breaker |-> b, admitted |-> TRUE]

\* The locked block at the top of CircuitBreaker.call: the breaker after
\* the check, and whether the call is admitted to the protected operation.
Gate(b, t) ==
    IF b.state = "open"
    THEN IF ShouldAttemptReset(b, t)
         THEN [breaker |-> [b EXCEPT !.state = "half_open"], admitted |-> TRUE]
         ELSE [breaker |-> b, admitted |-> FALSE]
    ELSE [breaker |-> b, admitted |-> TRUE]

\* Mutant: closing the breaker leaves failure_count as it was.
OnSuccess_KeepCount(b, t) ==
    LET c == [b EXCEPT !.success_count = @ + 1,
                       !.total_requests = @ + 1,
                       !.last_success_time = t]
    IN IF c.state = "half_open" THEN [c EXCEPT !.state = "closed"] ELSE c

\* Mutant: a success in Half-Open resets the count but leaves the state.
OnSuccess_StaysHalfOpen(b, t) ==
    LET c == [b EXCEPT !.success_count = @ + 1,
                       !.total_requests = @ + 1,
                       !.last_success_time = t]
    IN IF c.state = "half_open" THEN [c EXCEPT !.failure_count = 0] ELSE c

\* Mutant: every success resets failure_count, whatever the state.
OnSuccess_AlwaysResets(b, t) ==
    LET c == [b EXCEPT !.success_count = @ + 1,
                       !.total_requests = @ + 1,
                       !.last_success_time = t,
                       !.failure_count = 0]
    IN IF c.state = "half_open" THEN [c EXCEPT !.state = "closed"] ELSE c

\* CircuitBreaker._on_success
OnSuccess(b, t) ==
    LET c == [b EXCEPT !.success_count = @ + 1,
                       !.total_requests = @ + 1,
                       !.last_success_time = t]
    IN IF c.state = "half_open"
       THEN [c EXCEPT !.state = "closed", !.failure_count = 0]
       ELSE c

\* Mutant: the breaker opens only when failure_count exceeds the threshold.
OnFailure_StrictThreshold(b, t) ==
    LET c == [b EXCEPT !.failure_count = @ + 1,
                       !.total_requests = @ + 1,
                       !.last_failure_time = t]
    IN IF c.failure_count > failure_threshold /\ c.state = "closed"
       THEN [c EXCEPT !.state = "open"]
       ELSE c

\* CircuitBreaker._on_failure
OnFailure(b, t) ==
    LET c == [b EXCEPT !.failure_count = @ + 1,
                       !.total_requests = @ + 1,
                       !.last_failure_time = t]
    IN IF c.failure_count >= failure_threshold /\ c.state = "closed"
       THEN [c EXCEPT !.state = "open"]
       ELSE c

\* Mutant: creating a breaker replaces the manager's map by one that holds
\* the new breaker only.
GetBreaker_ReplacesMap(m, s) ==
    IF m[s] = NoBreaker
    THEN [x \in Names |-> IF x = s THEN NewBreaker ELSE NoBreaker]
    ELSE m

\* CircuitBreakerManager.get_breaker: the map after the lookup.
GetBreaker(m, s) ==
    IF m[s] = NoBreaker THEN [m EXCEPT ![s] = NewBreaker] ELSE m

\* ------------------------------------------------------------------ proxy

\* Mutant: the clause for timeouts is missing.
Handlers_NoTimeoutClause ==
    << <<"CircuitBreakerOpenException", 503, "temporarily_unavailable">>,
       <<"ConnectError", 503, "unavailable">>,
       <<"Exception", 502, "bad_gateway">> >>

\* Mutant: the catch-all clause comes before the connection-failure clause.
Handlers_GenericBeforeConnect ==
    << <<"CircuitBreakerOpenException", 503, "temporarily_unavailable">>,
       <<"TimeoutException", 504, "request_timeout">>,
       <<"Exception", 502, "bad_gateway">>,
       <<"ConnectError", 503, "unavailable">> >>

\* The except clauses of proxy_request, in source order:
\* <<class caught, status answered, detail>>.
Handlers ==
    << <<"CircuitBreakerOpenException", 503, "temporarily_unavailable">>,
       <<"TimeoutException", 504, "request_timeout">>,
       <<"ConnectError", 503, "unavailable">>,
       <<"Exception", 502, "bad_gateway">> >>

\* The first except clause that catches an exception of class c (0: none).
FirstHandler(c) ==
    IF \E i \in DOMAIN Handlers : IsInstance(c, Handlers[i][1])
    THEN CHOOSE i \in DOMAIN Handlers :
            /\ IsInstance(c, Handlers[i][1])
            /\ \A j \in DOMAIN Handlers : IsInstance(c, Handlers[j][1]) => i <= j
    ELSE 0

\* What leaves proxy_request when the breaker's call raises class c: the
\* HTTPException of the clause that caught it, or the exception itself.
Translate(c) ==
    LET i == FirstHandler(c)
    IN IF i = 0
       THEN [status |-> 0, body |-> "-", detail |-> "escaped"]
       ELSE [status |-> Handlers[i][2], body |-> "-", detail |-> Handlers[i][3]]

\* ProxyService._make_request on a backend answer: status code and content
\* are handed on as received; httpx raises for no status.
WrapResponse(o) == [status |-> o.status, body |-> o.body, detail |-> "backend"]

\* The 404 proxy_request raises for a name settings.services does not hold.
ServiceNotFound == [status |-> 404, body |-> "-", detail |-> "service_not_found"]

\* Mutant: the breaker is looked up before the service name is checked.
ProxyEnter_LookupFirst(m, cfg, s, t) ==
    LET m1 == GetBreaker(m, s)
    IN IF s \notin cfg
       THEN [breakers |-> m1, verdict |-> "not_found"]
       ELSE LET g == Gate(m1[s], t)
            IN [breakers |-> [m1 EXCEPT ![s] = g.breaker],
                verdict |-> IF g.admitted THEN "admitted" ELSE "rejected"]

\* proxy_request: the base of target_url, the URL the backend call of a
\* configured service s goes to.
TargetUrl(s) == ConfigUrl(s)

\* proxy_request from its entry to the breaker's check: the breaker map it
\* leaves and how far the request got.
ProxyEnter(m, cfg, s, t) ==
    IF s \notin cfg
    THEN [breakers |-> m, verdict |-> "not_found"]
    ELSE LET m1 == GetBreaker(m, s)
             g == Gate(m1[s], t)
         IN [breakers |-> [m1 EXCEPT ![s] = g.breaker],
             verdict |-> IF g.admitted THEN "admitted" ELSE "rejected"]

\* Mutant: a backend answer with a 5xx status is booked as a failure.
Bookkeeping_ServerErrorFails(b, o, t) ==
    IF o.kind = "raise" \/ o.status >= 500 THEN OnFailure(b, t) ELSE OnSuccess(b, t)

\* The breaker's bookkeeping for a call that ended with outcome o:
\* call's try/except around the protected operation.
Bookkeeping(b, o, t) ==
    IF o.kind = "raise" THEN OnFailure(b, t) ELSE OnSuccess(b, t)

\* What proxy_request hands to the HTTP layer for outcome o.
ProxyResult(o) ==
    IF o.kind = "raise" THEN Translate(o.exc) ELSE WrapResponse(o)

RECURSIVE SumOver(_, _)
SumOver(f, S) ==
    IF S = {} THEN 0
    ELSE LET x == CHOOSE y \in S : TRUE IN f[x] + SumOver(f, S \ {x})

\* The record of one answer: who asked for what, what the breaker's call
\* raised (exc), what the backend did (outcome), what the caller got.
Answer(t, s, e, o, r) ==
    [task |-> t, service |-> s, status |-> r.status, body |-> r.body,
     detail |-> r.detail, exc |-> e, outcome |-> o]

\* Failed calls in a row since the breaker was Closed with failure_count 0
\* (-1: a success intervened after the first failure).
NextStreak(old, b, failed) ==
    IF b.state = "closed" /\ b.failure_count = 0 THEN 0
    ELSE IF failed /\ old >= 0 THEN old + 1
    ELSE IF failed THEN old
    ELSE -1

\* Failed calls of a breaker since it was created or last became Closed:
\* old is the number before a call that took the breaker from b0 to b1.
NextFailedSince(old, b0, b1, failed) ==
    IF b0.state # "closed" /\ b1.state = "closed" THEN 0
    ELSE IF failed THEN old + 1
    ELSE old

\* MetricsCollector.record_service_request: SERVICE_REQUEST_COUNT of the
\* service, summed over its method and status_code labels, after one more
\* record.
RecordServiceRequest(m, s) == [m EXCEPT ![s] = @ + 1]

\* proxy_request for a name that is not configured.
EnterUnknown(t, s) ==
    /\ pc[t] = "idle"
    /\ LET e == ProxyEnter(breakers, services, s, now)
       IN /\ e.verdict = "not_found"
          /\ breakers' = e.breakers
    /\ response' = Answer(t, s, "-", NoOutcome, ServiceNotFound)
    /\ UNCHANGED <<services, now, pc, target, admitted, invocations, streak, failedSince, requestCount>>
    /\ UNCHANGED nonProxyVars

\* proxy_request rejected by an open breaker: call raises
\* CircuitBreakerOpenException and proxy_request answers it.
EnterRejected(t, s) ==
    /\ pc[t] = "idle"
    /\ LET e == ProxyEnter(breakers, services, s, now)
       IN /\ e.verdict = "rejected"
          /\ breakers' = e.breakers
    /\ response' = Answer(t, s, "CircuitBreakerOpenException", NoOutcome,
                          Translate("CircuitBreakerOpenException"))
    /\ UNCHANGED <<services, now, pc, target, admitted, invocations, streak, failedSince, requestCount>>
    /\ UNCHANGED nonProxyVars

\* proxy_request up to the backend I/O: the breaker admits the call and
\* the protected operation (_make_request) is invoked.
EnterAdmitted(t, s) ==
    /\ pc[t] = "idle"
    /\ SumOver(invocations, Names) < MaxCalls
    /\ LET e == ProxyEnter(breakers, services, s, now)
       IN /\ e.verdict = "admitted"
          /\ breakers' = e.breakers
          /\ admitted' = [admitted EXCEPT ![t] = e.breakers[s].state]
    /\ pc' = [pc EXCEPT ![t] = "inflight"]
    /\ target' = [target EXCEPT ![t] = s]
    /\ invocations' = [invocations EXCEPT ![s] = @ + 1]
    /\ response' = NoResponse
    /\ UNCHANGED <<services, now, streak, failedSince, requestCount>>
    /\ UNCHANGED nonProxyVars

\* The backend call of task t ends with outcome o: the breaker's
\* bookkeeping, then proxy_request's return or except clause.
Complete(t, o) ==
    /\ pc[t] = "inflight"
    /\ LET s == target[t]
           b == Bookkeeping(breakers[s], o, now)
       IN /\ breakers' = [breakers EXCEPT ![s] = b]
          /\ streak' = [streak EXCEPT ![s] = NextStreak(@, b, o.kind = "raise")]
          /\ failedSince' = [failedSince EXCEPT ![s] =
                                NextFailedSince(@, breakers[s], b, o.kind = "raise")]
          /\ requestCount' = RecordServiceRequest(requestCount, s)
          /\ response' = Answer(t, s, o.exc, o, ProxyResult(o))
    /\ pc' = [pc EXCEPT ![t] = "idle"]
    /\ target' = [target EXCEPT ![t] = "-"]
    /\ admitted' = [admitted EXCEPT ![t] = "-"]
    /\ UNCHANGED <<services, now, invocations>>
    /\ UNCHANGED nonProxyVars

\* Wall-clock time passes.
Tick ==
    /\ now + TickStep <= MaxTime
    /\ now' = now + TickStep
    /\ response' = NoResponse
    /\ UNCHANGED <<services, breakers, pc, target, admitted, invocations, streak, failedSince, requestCount>>
    /\ UNCHANGED nonProxyVars

Next ==
    \/ \E t \in Tasks, s \in Names : EnterUnknown(t, s)
    \/ \E t \in Tasks, s \in Names : EnterRejected(t, s)
    \/ \E t \in Tasks, s \in Names : EnterAdmitted(t, s)
    \/ \E t \in Tasks, o \in Outcomes : Complete(t, o)
    \/ Tick

Spec == Init /\ [][Next]_vars

\* ------------------------------------------------------------ two services

\* ServiceConfig.circuit_breaker_threshold of a configured service, in a
\* deployment that gives "sms" a threshold of its own (the field's default
\* is 5).
circuit_breaker_threshold(s) == IF s = "sms" THEN 3 ELSE 5

\* ServiceConfig.circuit_breaker_timeout of a configured service, in a
\* deployment that gives "sms" a timeout of its own (the field's default
\* is 60).
circuit_breaker_timeout(s) == IF s = "sms" THEN 30 ELSE 60

\* GET /services/{service_name}/metrics: HealthService.get_service_metrics
\* asks the manager for the breaker of the name in the path and reports
\* its state and counters.
ServiceMetrics(s) ==
    /\ breakers' = GetBreaker(breakers, s)
    /\ response' = NoResponse
    /\ UNCHANGED <<services, now, pc, target, admitted, invocations, streak,
                   failedSince, requestCount>>
    /\ UNCHANGED nonProxyVars

\* The outcomes of the backend calls explored with two services.
PairOutcomes ==
    {o \in Outcomes : \/ o.kind = "raise" /\ o.exc = "ConnectError"
                      \/ o.kind = "response" /\ o.body = "b1" /\ o.status = 200}

\* A gateway configured with two backend services.
InitPair ==
    /\ services = {"auth", "sms"}
    /\ InitRuntime
    /\ strategy = "round_robin"
    /\ InitDiscovery({"auth", "sms"})
    /\ InitEdge
    /\ InitRate
    /\ InitHealth

NextPair ==
    \/ \E t \in Tasks, s \in Names : EnterUnknown(t, s)
    \/ \E t \in Tasks, s \in Names : EnterRejected(t, s)
    \/ \E t \in Tasks, s \in Names :
          SumOver(invocations, Names) < PairMaxCalls /\ EnterAdmitted(t, s)
    \/ \E t \in Tasks, o \in PairOutcomes : Complete(t, o)
    \/ \E s \in Names \ services : ServiceMetrics(s)
    \/ now + TickStep <= PairMaxTime /\ Tick

SpecPair == InitPair /\ [][NextPair]_vars

\* ------------------------------------------------------ service registry

\* [i for i in instances if i.is_healthy]
HealthyOf(insts) == SelectSeq(insts, LAMBDA i : i.is_healthy)

Range(q) == {q[k] : k \in DOMAIN q}

UrlsOf(insts) == [k \in DOMAIN insts |-> insts[k].url]

\* Mutant: the counter is read but not advanced.
RoundRobinSelection_NoAdvance(h, c) ==
    LET name == h[1].name
        c0 == IF c[name] = NoCounter THEN 0 ELSE c[name]
    IN [instance |-> h[(c0 % Len(h)) + 1], counters |-> [c EXCEPT ![name] = c0]]

\* ServiceDiscovery._round_robin_selection: the instance returned and the
\* counters it leaves.
RoundRobinSelection(h, c) ==
    LET name == h[1].name
        c0 == IF c[name] = NoCounter THEN 0 ELSE c[name]
    IN [instance |-> h[(c0 % Len(h)) + 1], counters |-> [c EXCEPT ![name] = c0 + 1]]

\* ServiceDiscovery._least_response_time_selection: min() returns the
\* first instance of least response_time.
LeastResponseTimeSelection(h) ==
    h[CHOOSE k \in DOMAIN h :
        /\ \A j \in DOMAIN h : h[k].response_time <= h[j].response_time
        /\ \A j \in DOMAIN h : h[j].response_time = h[k].response_time => k <= j]

\* ServiceDiscovery._random_selection: any of the instances.
RandomSelection(h) == Range(h)

\* Mutant: the random policy draws from all instances, healthy or not.
GetServiceInstance_RandomOfAll(insts, c, strat, s) ==
    LET all == insts[s]
        h == HealthyOf(all)
    IN IF h = <<>>
       THEN {[instance |-> IF all # <<>> THEN all[1] ELSE NoInstance, counters |-> c]}
       ELSE IF strat = "round_robin" THEN {RoundRobinSelection(h, c)}
       ELSE IF strat = "least_connections"
            THEN {[instance |-> LeastResponseTimeSelection(h), counters |-> c]}
       ELSE IF strat = "random"
            THEN {[instance |-> i, counters |-> c] : i \in RandomSelection(all)}
       ELSE {[instance |-> h[1], counters |-> c]}

\* ServiceDiscovery.get_service_instance: the possible results, each with
\* the counters it leaves.
GetServiceInstance(insts, c, strat, s) ==
    LET all == insts[s]
        h == HealthyOf(all)
    IN IF h = <<>>
       THEN {[instance |-> IF all # <<>> THEN all[1] ELSE NoInstance, counters |-> c]}
       ELSE IF strat = "round_robin" THEN {RoundRobinSelection(h, c)}
       ELSE IF strat = "least_connections"
            THEN {[instance |-> LeastResponseTimeSelection(h), counters |-> c]}
       ELSE IF strat = "random"
            THEN {[instance |-> i, counters |-> c] : i \in RandomSelection(h)}
       ELSE {[instance |-> h[1], counters |-> c]}

\* ProxyService.health_check_service: the status it reports for a service
\* name; the request goes to the URL settings.services gives that name.
HealthCheckService(cfg, up, s) ==
    IF s \notin cfg THEN "unknown"
    ELSE IF ConfigUrl(s) \in up THEN "healthy"
    ELSE "unhealthy"

\* Mutant: the instance is condemned only when the counter exceeds max_failures.
HealthCheckInstance_Late(i, result, t, rt) ==
    LET j == [i EXCEPT !.last_health_check = t, !.response_time = rt]
    IN IF result = "healthy"
       THEN [j EXCEPT !.is_healthy = TRUE, !.failure_count = 0]
       ELSE LET k == [j EXCEPT !.failure_count = @ + 1]
            IN IF k.failure_count > max_failures
               THEN [k EXCEPT !.is_healthy = FALSE]
               ELSE k

\* ServiceDiscovery._health_check_instance once the probe has answered.
HealthCheckInstance(i, result, t, rt) ==
    LET j == [i EXCEPT !.last_health_check = t, !.response_time = rt]
    IN IF result = "healthy"
       THEN [j EXCEPT !.is_healthy = TRUE, !.failure_count = 0]
       ELSE LET k == [j EXCEPT !.failure_count = @ + 1]
            IN IF k.failure_count >= max_failures
               THEN [k EXCEPT !.is_healthy = FALSE]
               ELSE k

\* ServiceDiscovery._health_check_instance when the probe raised: the
\* except clause.
HealthCheckInstanceRaised(i, t) ==
    LET k == [i EXCEPT !.failure_count = @ + 1, !.last_health_check = t]
    IN IF k.failure_count >= max_failures
       THEN [k EXCEPT !.is_healthy = FALSE]
       ELSE k

\* Mutant: a probe is started for every instance, due or not.
DueProbes_All(insts, t) ==
    {<<s, u>> \in Names \X Urls :
        \E k \in DOMAIN insts[s] : insts[s][k].url = u}

\* The instances health_check_all_services starts a probe for.
DueProbes(insts, t) ==
    {<<s, u>> \in Names \X Urls :
        \E k \in DOMAIN insts[s] :
            /\ insts[s][k].url = u
            /\ t - insts[s][k].last_health_check > health_check_interval}

\* Where periodic_health_checks stands once the probes in p are the ones
\* still awaited: gather returns when none is left.
AfterProbe(at, p) == IF at = "gather" /\ p = {} THEN "sleep" ELSE at

\* The picks remembered for s once its instance list is insts2: none when
\* the list of healthy instances changed.
KeepPicks(s, insts2) ==
    IF UrlsOf(HealthyOf(insts2[s])) = UrlsOf(HealthyOf(instances[s]))
    THEN picks[s] ELSE <<>>

\* The last n+1 picks, n the number of healthy instances.
Window(q, n) == IF Len(q) > n + 1 THEN SubSeq(q, Len(q) - n, Len(q)) ELSE q

\* get_service_instance(s)
GetInstance(s) ==
    /\ (IF counters[s] = NoCounter THEN 0 ELSE counters[s]) < MaxPicks
    /\ \E r \in GetServiceInstance(instances, counters, strategy, s) :
          /\ counters' = r.counters
          /\ picked' = [service |-> s, instance |-> r.instance]
          /\ picks' = [picks EXCEPT ![s] =
                          IF HealthyOf(instances[s]) = <<>> THEN @
                          ELSE Window(Append(@, r.instance.url),
                                      Len(HealthyOf(instances[s])))]
    /\ UNCHANGED <<strategy, instances, sweepPc, pending, healthyUrls, failedProbes>>
    /\ UNCHANGED proxyVars
    /\ UNCHANGED nonDiscVars

\* add_service_instance(s, u)
AddInstance(s, u) ==
    /\ Len(instances[s]) < MaxInstances
    /\ u \notin Range(UrlsOf(instances[s]))
    /\ LET insts2 == [instances EXCEPT ![s] = Append(@, NewInstance(s, u))]
       IN /\ instances' = insts2
          /\ picks' = [picks EXCEPT ![s] = KeepPicks(s, insts2)]
    /\ failedProbes' = [failedProbes EXCEPT ![<<s, u>>] = 0]
    /\ picked' = NoPick
    /\ UNCHANGED <<strategy, counters, sweepPc, pending, healthyUrls>>
    /\ UNCHANGED proxyVars
    /\ UNCHANGED nonDiscVars

\* remove_service_instance(s, u)
RemoveInstance(s, u) ==
    /\ u \in Range(UrlsOf(instances[s]))
    /\ LET insts2 == [instances EXCEPT ![s] = SelectSeq(@, LAMBDA i : i.url # u)]
       IN /\ instances' = insts2
          /\ picks' = [picks EXCEPT ![s] = KeepPicks(s, insts2)]
    /\ failedProbes' = [failedProbes EXCEPT ![<<s, u>>] = 0]
    /\ pending' = pending \ {<<s, u>>}
    /\ sweepPc' = AfterProbe(sweepPc, pending \ {<<s, u>>})
    /\ picked' = NoPick
    /\ UNCHANGED <<strategy, counters, healthyUrls>>
    /\ UNCHANGED proxyVars
    /\ UNCHANGED nonDiscVars

\* periodic_health_checks calls health_check_all_services, which starts a
\* probe for every instance that is due and awaits them all.
StartSweep ==
    /\ sweepPc = "check"
    /\ pending' = DueProbes(instances, now)
    /\ sweepPc' = AfterProbe("gather", DueProbes(instances, now))
    /\ picked' = NoPick
    /\ UNCHANGED <<strategy, instances, counters, healthyUrls, picks, failedProbes>>
    /\ UNCHANGED proxyVars
    /\ UNCHANGED nonDiscVars

\* The probe of instance u of service s answers after rt seconds.
ProbeDone(s, u, rt) ==
    /\ <<s, u>> \in pending
    /\ LET result == HealthCheckService(services, healthyUrls, s)
           insts2 == [instances EXCEPT ![s] =
                         [k \in DOMAIN @ |->
                             IF @[k].url = u
                             THEN HealthCheckInstance(@[k], result, now, rt)
                             ELSE @[k]]]
       IN /\ instances' = insts2
          /\ picks' = [picks EXCEPT ![s] = KeepPicks(s, insts2)]
          /\ failedProbes' = [failedProbes EXCEPT ![<<s, u>>] =
                                 IF result = "healthy" THEN 0 ELSE @ + 1]
    /\ pending' = pending \ {<<s, u>>}
    /\ sweepPc' = AfterProbe(sweepPc, pending \ {<<s, u>>})
    /\ picked' = NoPick
    /\ UNCHANGED <<strategy, counters, healthyUrls>>
    /\ UNCHANGED proxyVars
    /\ UNCHANGED nonDiscVars

\* A backend starts or stops answering 200 on its health path.
ToggleBackend(u) ==
    /\ healthyUrls' = IF u \in healthyUrls THEN healthyUrls \ {u} ELSE healthyUrls \cup {u}
    /\ picked' = NoPick
    /\ UNCHANGED <<strategy, instances, counters, sweepPc, pending, picks, failedProbes>>
    /\ UNCHANGED proxyVars
    /\ UNCHANGED nonDiscVars

\* periodic_health_checks sleeps between two sweeps.
DiscTick ==
    /\ sweepPc = "sleep"
    /\ now + DiscTickStep <= DiscMaxTime
    /\ now' = now + DiscTickStep
    /\ picked' = NoPick
    /\ sweepPc' = "check"
    /\ UNCHANGED <<strategy, instances, counters, pending, healthyUrls, picks, failedProbes>>
    /\ UNCHANGED <<services, breakers, pc, target, admitted, invocations, streak, failedSince, requestCount, response>>
    /\ UNCHANGED nonDiscVars

\* The registry of a gateway configured with one backend service, from
\* start-up on: instances are added and removed and the periodic sweeps run.
InitDisc ==
    /\ services = {"auth"}
    /\ now = DiscStart
    /\ InitBreakers
    /\ strategy = "round_robin"
    /\ InitDiscovery({"auth"})
    /\ InitEdge
    /\ InitRate
    /\ InitHealth

NextDisc ==
    \/ \E s \in services : AddInstance(s, "u1")
    \/ \E s \in services, u \in Urls : RemoveInstance(s, u)
    \/ StartSweep
    \/ \E s \in Names, u \in Urls, rt \in RespTimes : ProbeDone(s, u, rt)
    \/ \E u \in {ConfigUrl(s) : s \in services} \cup ExtraUrls : ToggleBackend(u)
    \/ DiscTick

SpecDisc == InitDisc /\ [][NextDisc]_vars

\* The states the sweeps can have left instance u of service s in by time
\* t: never probed, or probed at t and found healthy, or condemned.
InstanceStates(s, u, t) ==
    {NewInstance(s, u)} \cup
    {[NewInstance(s, u) EXCEPT !.last_health_check = t,
                              !.response_time = rt,
                              !.is_healthy = h,
                              !.failure_count = IF h THEN 0 ELSE max_failures] :
        rt \in RespTimes, h \in BOOLEAN}

\* The URLs of a registry lookups are explored from, in list order.
PickUrls == <<ConfigUrl("auth"), "u1", "u2">>

\* The registries of service s with up to MaxInstances instances.
Registries(s, t) ==
    UNION {{q \in [1..n -> UNION {InstanceStates(s, PickUrls[k], t) : k \in 1..n}] :
              \A k \in 1..n : q[k].url = PickUrls[k]} :
           n \in {m \in 0..Len(PickUrls) : m <= MaxInstances}}

\* The probe of instance u of service s raises an exception.
ProbeRaises(s, u) ==
    /\ <<s, u>> \in pending
    /\ LET insts2 == [instances EXCEPT ![s] =
                         [k \in DOMAIN @ |->
                             IF @[k].url = u
                             THEN HealthCheckInstanceRaised(@[k], now)
                             ELSE @[k]]]
       IN /\ instances' = insts2
          /\ picks' = [picks EXCEPT ![s] = KeepPicks(s, insts2)]
          /\ failedProbes' = [failedProbes EXCEPT ![<<s, u>>] = @ + 1]
    /\ pending' = pending \ {<<s, u>>}
    /\ sweepPc' = AfterProbe(sweepPc, pending \ {<<s, u>>})
    /\ picked' = NoPick
    /\ UNCHANGED <<strategy, counters, healthyUrls>>
    /\ UNCHANGED proxyVars
    /\ UNCHANGED nonDiscVars

\* One sweep: periodic_health_checks calls health_check_all_services on a
\* registry earlier sweeps have left in any state, right after they
\* stamped it or one sleep later.
InitSweep ==
    /\ services = {"auth"}
    /\ now \in {DiscStart, DiscStart + DiscTickStep}
    /\ InitBreakers
    /\ strategy = "round_robin"
    /\ \E q \in Registries("auth", DiscStart) :
          /\ instances = [s \in Names |-> IF s = "auth" THEN q ELSE <<>>]
          /\ failedProbes = [k \in Names \X Urls |->
                IF \E j \in DOMAIN q : k = <<"auth", q[j].url>>
                THEN (CHOOSE i \in Range(q) : i.url = k[2]).failure_count
                ELSE 0]
    /\ counters = [s \in Names |-> NoCounter]
    /\ sweepPc = "check"
    /\ pending = {}
    /\ healthyUrls = Urls
    /\ picked = NoPick
    /\ picks = [s \in Names |-> <<>>]
    /\ InitEdge
    /\ InitRate
    /\ InitHealth

NextSweep ==
    \/ StartSweep
    \/ \E s \in Names, u \in Urls, rt \in RespTimes : ProbeDone(s, u, rt)
    \/ \E s \in Names, u \in Urls : ProbeRaises(s, u)
    \/ \E s \in services : ToggleBackend(ConfigUrl(s))

SpecSweep == InitSweep /\ [][NextSweep]_vars

\* Lookups: a registry the sweeps have left in any state, under any
\* load-balancing setting.
InitPick ==
    /\ services = {"auth"}
    /\ now = DiscStart
    /\ InitBreakers
    /\ strategy \in Strategies
    /\ \E q \in Registries("auth", DiscStart) :
          /\ instances = [s \in Names |-> IF s = "auth" THEN q ELSE <<>>]
          /\ failedProbes = [k \in Names \X Urls |->
                IF \E j \in DOMAIN q : k = <<"auth", q[j].url>>
                THEN (CHOOSE i \in Range(q) : i.url = k[2]).failure_count
                ELSE 0]
    /\ counters = [s \in Names |-> NoCounter]
    /\ sweepPc = "sleep"
    /\ pending = {}
    /\ healthyUrls = Urls
    /\ picked = NoPick
    /\ picks = [s \in Names |-> <<>>]
    /\ InitEdge
    /\ InitRate
    /\ InitHealth

NextPick ==
    \/ \E s \in Names : GetInstance(s)
    \/ \E s \in services, u \in ExtraUrls : AddInstance(s, u)
    \/ \E s \in services, u \in Urls : RemoveInstance(s, u)

SpecPick == InitPick /\ [][NextPick]_vars

\* ----------------------------------------------------------- gateway edge

\* str.startswith and str.endswith
StartsWith(s, p) == Len(s) >= Len(p) /\ SubSeq(s, 1, Len(p)) = p
EndsWith(s, p) == Len(s) >= Len(p) /\ SubSeq(s, Len(s) - Len(p) + 1, Len(s)) = p

\* The positions of the spaces of s.
Spaces(s) == {i \in 1..Len(s) : SubSeq(s, i, i) = " "}

Least(S) == CHOOSE x \in S : \A y \in S : x <= y

\* s.split(" ", 1)[0] and s.partition(" ")[0]
BeforeFirstSpace(s) ==
    IF Spaces(s) = {} THEN s ELSE SubSeq(s, 1, Least(Spaces(s)) - 1)

\* s.split(" ", 1)[1] and s.partition(" ")[2], for an s that holds a space
AfterFirstSpace(s) == SubSeq(s, Least(Spaces(s)) + 1, Len(s))

\* s.split(" ")[1], for an s that holds a space
SecondWord(s) ==
    LET i == Least(Spaces(s))
        later == Spaces(s) \ {i}
    IN IF later = {} THEN SubSeq(s, i + 1, Len(s))
       ELSE SubSeq(s, i + 1, Least(later) - 1)

\* Truth of a string or None in a condition.
Truthy(v) == v # None /\ v # ""

\* dict.get with default None, dict[k] = v, dict.pop(k, None)
Get(h, k) == IF k \in DOMAIN h THEN h[k] ELSE None
Put(h, k, v) == [x \in (DOMAIN h) \cup {k} |-> IF x = k THEN v ELSE h[x]]
PopAll(h, K) == [x \in (DOMAIN h) \ K |-> h[x]]

\* The name a header is looked up and sent under, whatever its case.
LowerName(k) ==
    CASE k = "Authorization" -> "authorization"
      [] k = "X-Request-ID" -> "x-request-id"
      [] k = "X-API-Key" -> "x-api-key"
      [] k = "X-User-Id" -> "x-user-id"
      [] k = "X-Forwarded-For" -> "x-forwarded-for"
      [] k = "X-Forwarded-Proto" -> "x-forwarded-proto"
      [] k = "X-Forwarded-Host" -> "x-forwarded-host"
      [] k = "Content-Type" -> "content-type"
      [] k = "Accept" -> "accept"
      [] OTHER -> k

\* request.headers.get(name): Starlette keeps header names in lower case
\* and looks them up without regard to case.
HeaderGet(h, name) == Get(h, LowerName(name))

\* The entries of an outbound header map sent under the name of k.
Copies(h, k) == {x \in DOMAIN h : LowerName(x) = LowerName(k)}

\* Authorization, X-API-Key and X-Request-ID values a client may send
\* (None: the header is not sent).
AuthorizationValues ==
    {None, "Basic dXNlcg==", "Bearer good.jwt", "Bearer bad.jwt", "Bearer two words",
     "bearer good.jwt"}
ApiKeyValues == {None, "sk-0123456789abcdefghij", "sk-short"}
RequestIdValues == {None, "", "req-1"}

\* The tokens jwt.decode accepts under the gateway's key, and the subject
\* they carry; the value uuid.uuid4() returns.
ValidTokens == {"good.jwt"}
Subject == "7"
Uuids == {"uuid-1"}

WithHeader(h, k, v) == IF v = None THEN h ELSE Put(h, k, v)

\* The header maps of the requests explored.
InboundHeaders ==
    {WithHeader(WithHeader(WithHeader(WithHeader([x \in {"host"} |-> "gw"],
        "authorization", a), "x-api-key", k), "x-request-id", r), "connection", c) :
        a \in AuthorizationValues, k \in ApiKeyValues, r \in RequestIdValues,
        c \in {None}}

\* Routes of the gateway: two that proxy through proxy_request (one behind
\* Depends(HTTPBearer()), one without), the one that calls make_request,
\* and one the gateway answers itself.
Routes ==
    {[path |-> "/api/v1/sms/send", handler |-> "proxy", service |-> "sms", bearer |-> TRUE],
     [path |-> "/api/v1/auth/login", handler |-> "proxy", service |-> "auth", bearer |-> FALSE],
     [path |-> "/api/v1/services/auth/health", handler |-> "client", service |-> "auth",
      bearer |-> FALSE],
     [path |-> "/health", handler |-> "local", service |-> "-", bearer |-> FALSE]}

\* AuthMiddleware.__init__: the paths main.py leaves it with.
excluded_paths ==
    <<"/", "/health", "/metrics", "/docs", "/redoc", "/openapi.json",
      "/api/v1/openapi.json", "/api/v1/services/health", "/api/v1/services/status",
      "/api/v1/examples/", "/.well-known/">>

\* re.match("^" + pattern + ".*", path): the pattern's characters match
\* themselves, a dot matches any character.
RegexPrefixMatch(pattern, path) ==
    /\ Len(path) >= Len(pattern)
    /\ \A i \in 1..Len(pattern) :
          SubSeq(pattern, i, i) = "." \/ SubSeq(pattern, i, i) = SubSeq(path, i, i)

\* AuthMiddleware._is_excluded_path
IsExcludedPath(path) ==
    \E i \in DOMAIN excluded_paths :
        LET e == excluded_paths[i]
        IN IF EndsWith(e, "/") THEN StartsWith(path, e)
           ELSE path = e \/ RegexPrefixMatch(e, path)

\* verify_token and validate_api_key (app/core/security.py)
VerifyToken(token) == token \in ValidTokens
ValidateApiKey(k) == StartsWith(k, "sk-") /\ Len(k) > 20

\* AuthMiddleware._authenticate_jwt: request.state afterwards and the status
\* of the error response (0: none).
AuthenticateJwt(a, st) ==
    IF ~StartsWith(a, "Bearer ") THEN [state |-> st, status |-> 401]
    ELSE IF ~VerifyToken(SecondWord(a)) THEN [state |-> st, status |-> 401]
    ELSE [state |-> [st EXCEPT !.user_id = Subject], status |-> 0]

\* AuthMiddleware._authenticate_api_key
AuthenticateApiKey(k, st) ==
    IF ~ValidateApiKey(k) THEN [state |-> st, status |-> 401]
    ELSE [state |-> [st EXCEPT !.api_key = k], status |-> 0]

\* AuthMiddleware.dispatch up to call_next, for a request without cookies.
AuthDispatch(req, st) ==
    IF IsExcludedPath(req.route.path) THEN [state |-> st, status |-> 0]
    ELSE LET a == HeaderGet(req.headers, "Authorization")
             k == HeaderGet(req.headers, "X-API-Key")
         IN IF Truthy(a) THEN AuthenticateJwt(a, st)
            ELSE IF Truthy(k) THEN AuthenticateApiKey(k, st)
            ELSE [state |-> st, status |-> 0]

\* Mutant: the header is ignored and an ID is always generated.
CorrelationDispatch_AlwaysNew(req, st, uuid) == [st EXCEPT !.request_id = uuid]

\* CorrelationIdMiddleware.dispatch up to call_next.
CorrelationDispatch(req, st, uuid) ==
    LET r == HeaderGet(req.headers, "X-Request-ID")
    IN [st EXCEPT !.request_id = IF Truthy(r) THEN r ELSE uuid]

\* Depends(HTTPBearer()) on a route: whether the request is let through.
BearerDependency(req) ==
    LET a == HeaderGet(req.headers, "Authorization")
    IN /\ Truthy(a)
       /\ Spaces(a) # {}
       /\ BeforeFirstSpace(a) \in {"Bearer", "bearer", "BEARER"}
       /\ AfterFirstSpace(a) # ""

hop_by_hop_headers ==
    {"connection", "keep-alive", "proxy-authenticate", "proxy-authorization", "te",
     "trailers", "transfer-encoding", "upgrade"}

\* The address and scheme the request came in with.
ClientHost == "10.0.0.9"
Scheme == "http"

\* Mutant: the token is taken as the second word of the header.
PrepareProxyHeaders_SecondWord(req, st) ==
    LET h1 == PopAll(req.headers, hop_by_hop_headers \cup {"content-length"})
        h2 == Put(h1, "X-Forwarded-For", ClientHost)
        h3 == Put(h2, "X-Forwarded-Proto", Scheme)
        h4 == Put(h3, "X-Forwarded-Host",
                  IF "host" \in DOMAIN req.headers THEN req.headers["host"] ELSE "")
        h5 == IF Truthy(st.request_id) THEN Put(h4, "X-Request-ID", st.request_id) ELSE h4
        h6 == IF Truthy(st.user_id) THEN Put(h5, "X-User-Id", st.user_id) ELSE h5
        a == HeaderGet(req.headers, "Authorization")
        token == IF Truthy(st.bearer_token) THEN st.bearer_token
                 ELSE IF Truthy(a) /\ StartsWith(a, "Bearer ") THEN SecondWord(a)
                 ELSE None
    IN IF Truthy(token) THEN Put(h6, "Authorization", "Bearer " \o token) ELSE h6

\* ProxyService._prepare_proxy_headers
PrepareProxyHeaders(req, st) ==
    LET h1 == PopAll(req.headers, hop_by_hop_headers \cup {"content-length"})
        h2 == Put(h1, "X-Forwarded-For", ClientHost)
        h3 == Put(h2, "X-Forwarded-Proto", Scheme)
        h4 == Put(h3, "X-Forwarded-Host",
                  IF "host" \in DOMAIN req.headers THEN req.headers["host"] ELSE "")
        h5 == IF Truthy(st.request_id) THEN Put(h4, "X-Request-ID", st.request_id) ELSE h4
        h6 == IF Truthy(st.user_id) THEN Put(h5, "X-User-Id", st.user_id) ELSE h5
        a == HeaderGet(req.headers, "Authorization")
        token == IF Truthy(st.bearer_token) THEN st.bearer_token
                 ELSE IF Truthy(a) /\ StartsWith(a, "Bearer ") THEN AfterFirstSpace(a)
                 ELSE None
    IN IF Truthy(token) THEN Put(h6, "Authorization", "Bearer " \o token) ELSE h6

\* ServiceClient._prepare_headers
ClientPrepareHeaders(req, st) ==
    LET h0 == [x \in {"Content-Type", "Accept"} |-> "application/json"]
        h2 == Put(h0, "X-Forwarded-For", ClientHost)
        h3 == Put(h2, "X-Forwarded-Proto", Scheme)
        h4 == Put(h3, "X-Forwarded-Host",
                  IF "host" \in DOMAIN req.headers THEN req.headers["host"] ELSE "")
        h5 == IF Truthy(st.request_id) THEN Put(h4, "X-Request-ID", st.request_id) ELSE h4
        h6 == IF Truthy(st.user_id) THEN Put(h5, "X-User-Id", st.user_id) ELSE h5
        a == HeaderGet(req.headers, "Authorization")
    IN IF Truthy(a) /\ StartsWith(a, "Bearer ") THEN Put(h6, "Authorization", a) ELSE h6

\* The breaker's bookkeeping for a call of ServiceClient._execute_request
\* that ended with outcome o: a backend answer of status 400 or more leaves
\* the protected operation as an HTTPException.
ClientBookkeeping(b, o, t) ==
    IF o.kind = "raise" \/ o.status >= 400 THEN OnFailure(b, t) ELSE OnSuccess(b, t)

\* What make_request hands to the HTTP layer for outcome o: the
\* HTTPException of _execute_request is raised on as it is.
ClientResult(o) ==
    IF o.kind = "raise" THEN Translate(o.exc) ELSE WrapResponse(o)

\* The outcomes of the backend calls explored at the edge.
EdgeOutcomes ==
    {o \in Outcomes : o.body \in {"b1", "-"} /\ o.exc \in {"-", "ConnectError", "ReadTimeout"}}

\* A request arrives.
EdgeArrive(r, h) ==
    /\ edgePc \in {"idle", "done"}
    /\ edgeCount < MaxEdgeRequests
    /\ edgeReq' = [route |-> r, headers |-> h]
    /\ edgePc' = "auth"
    /\ edgeState' = NoState
    /\ edgeOut' = NoHeaders
    /\ edgeVia' = "-"
    /\ edgeResp' = NoEdgeResp
    /\ edgeOutcome' = NoOutcome
    /\ edgeCount' = edgeCount + 1
    /\ UNCHANGED <<proxyVars, discVars, rateVars, healthVars>>

\* AuthMiddleware, the outermost middleware, handles the request.
EdgeAuth ==
    /\ edgePc = "auth"
    /\ LET r == AuthDispatch(edgeReq, edgeState)
       IN /\ edgeState' = r.state
          /\ IF r.status # 0
             THEN edgePc' = "done" /\ edgeResp' = [status |-> r.status, by |-> "auth"]
             ELSE edgePc' = "correlation" /\ edgeResp' = edgeResp
    /\ UNCHANGED <<edgeReq, edgeOut, edgeVia, edgeOutcome, edgeCount>>
    /\ UNCHANGED <<proxyVars, discVars, rateVars, healthVars>>

\* CorrelationIdMiddleware, the innermost of the gateway's own middleware,
\* handles the request.  The middleware registered between it and
\* AuthMiddleware (rate limiting, logging, metrics) hands the request on.
EdgeCorrelation(uuid) ==
    /\ edgePc = "correlation"
    /\ edgeState' = CorrelationDispatch(edgeReq, edgeState, uuid)
    /\ edgePc' = "route"
    /\ UNCHANGED <<edgeReq, edgeOut, edgeVia, edgeResp, edgeOutcome, edgeCount>>
    /\ UNCHANGED <<proxyVars, discVars, rateVars, healthVars>>

\* The route's dependency and handler run, up to the backend I/O:
\* proxy_request and make_request look the service up, consult its
\* breaker and prepare the outbound headers.
EdgeRoute ==
    /\ edgePc = "route"
    /\ LET r == edgeReq.route
       IN IF r.bearer /\ ~BearerDependency(edgeReq)
          THEN /\ edgePc' = "done"
               /\ edgeResp' = [status |-> 403, by |-> "dependency"]
               /\ UNCHANGED <<edgeOut, edgeVia, breakers, invocations>>
          ELSE IF r.handler = "local"
          THEN /\ edgePc' = "done"
               /\ edgeResp' = [status |-> 200, by |-> "gateway"]
               /\ UNCHANGED <<edgeOut, edgeVia, breakers, invocations>>
          ELSE LET e == ProxyEnter(breakers, services, r.service, now)
               IN /\ edgeVia' = r.handler
                  /\ breakers' = e.breakers
                  /\ IF e.verdict = "admitted"
                     THEN /\ edgePc' = "backend"
                          /\ edgeResp' = edgeResp
                          /\ edgeOut' = IF r.handler = "proxy"
                                        THEN PrepareProxyHeaders(edgeReq, edgeState)
                                        ELSE ClientPrepareHeaders(edgeReq, edgeState)
                          /\ invocations' = [invocations EXCEPT ![r.service] = @ + 1]
                     ELSE /\ edgePc' = "done"
                          /\ edgeResp' =
                                [status |-> IF e.verdict = "not_found"
                                            THEN ServiceNotFound.status
                                            ELSE Translate("CircuitBreakerOpenException").status,
                                 by |-> r.handler]
                          /\ UNCHANGED <<edgeOut, invocations>>
    /\ UNCHANGED <<edgeReq, edgeState, edgeOutcome, edgeCount>>
    /\ UNCHANGED <<services, now, pc, target, admitted, streak, failedSince, requestCount, response>>
    /\ UNCHANGED <<discVars, rateVars, healthVars>>

\* The backend call ends with outcome o: the breaker's bookkeeping, then
\* the handler's answer.
EdgeBackend(o) ==
    /\ edgePc = "backend"
    /\ LET s == edgeReq.route.service
           b == IF edgeVia = "proxy" THEN Bookkeeping(breakers[s], o, now)
                ELSE ClientBookkeeping(breakers[s], o, now)
           failed == o.kind = "raise" \/ (edgeVia = "client" /\ o.status >= 400)
       IN /\ breakers' = [breakers EXCEPT ![s] = b]
          /\ failedSince' = [failedSince EXCEPT ![s] =
                                NextFailedSince(@, breakers[s], b, failed)]
          /\ requestCount' = RecordServiceRequest(requestCount, s)
    /\ edgeResp' = [status |-> IF edgeVia = "proxy" THEN ProxyResult(o).status
                               ELSE ClientResult(o).status,
                    by |-> edgeVia]
    /\ edgeOutcome' = o
    /\ edgePc' = "done"
    /\ UNCHANGED <<edgeReq, edgeState, edgeOut, edgeVia, edgeCount>>
    /\ UNCHANGED <<services, now, pc, target, admitted, invocations, streak, response>>
    /\ UNCHANGED <<discVars, rateVars, healthVars>>

\* A gateway configured with two backend services receives requests, one
\* at a time.
InitEdgeSpec ==
    /\ services = {"auth", "sms"}
    /\ InitRuntime
    /\ strategy = "round_robin"
    /\ InitDiscovery({"auth", "sms"})
    /\ InitEdge
    /\ InitRate
    /\ InitHealth

NextEdge ==
    \/ \E r \in Routes, h \in InboundHeaders : EdgeArrive(r, h)
    \/ EdgeAuth
    \/ \E u \in Uuids : EdgeCorrelation(u)
    \/ EdgeRoute
    \/ \E o \in EdgeOutcomes : EdgeBackend(o)

SpecEdge == InitEdgeSpec /\ [][NextEdge]_vars

\* ----------------------------------------------------------- rate limiter

NoDecision == [client |-> "-", status |-> 0]

\* ZREMRANGEBYSCORE key 0 bound: the members with a score above bound stay.
ZRemRangeByScore(z, bound) == [m \in {x \in DOMAIN z : z[x] > bound} |-> z[m]]

\* ZCARD key
ZCard(z) == Cardinality(DOMAIN z)

\* RateLimitMiddleware._check_rate_limit with the store reachable, at second
\* t: the sorted set it leaves and its verdict.  The member it adds is the
\* text of the second, the score the second.
CheckRateLimit(z, t) ==
    LET z1 == ZRemRangeByScore(z, t - rate_limit_window)
    IN IF ZCard(z1) >= rate_limit_requests
       THEN [store |-> z1, allowed |-> FALSE]
       ELSE [store |-> Put(z1, ToString(t), t), allowed |-> TRUE]

\* The sorted set once its key's expiry, set rate_limit_window seconds
\* after the last addition, is reached at second t.
Expire(z, t) ==
    IF \A m \in DOMAIN z : t - z[m] >= rate_limit_window THEN EmptyZSet ELSE z

\* RateLimitMiddleware.dispatch for a request of client c: 429, or the
\* request is handed to the next handler.
RateRequest(c) ==
    /\ SumOver(rlPassed[c], RlTimes) < RlMaxRequests
    /\ LET r == CheckRateLimit(rlStore[c], now)
       IN /\ rlStore' = [rlStore EXCEPT ![c] = r.store]
          /\ rlPassed' = [rlPassed EXCEPT ![c][now] = IF r.allowed THEN @ + 1 ELSE @]
          /\ rlLast' = [client |-> c, status |-> IF r.allowed THEN 200 ELSE 429]
    /\ UNCHANGED <<proxyVars, discVars, edgeVars, healthVars>>

\* A second passes.
RateTick ==
    /\ now < RlMaxTime
    /\ now' = now + 1
    /\ rlStore' = [c \in Clients |-> Expire(rlStore[c], now + 1)]
    /\ rlLast' = NoDecision
    /\ UNCHANGED rlPassed
    /\ UNCHANGED <<services, breakers, pc, target, admitted, invocations, streak, failedSince, requestCount, response>>
    /\ UNCHANGED <<discVars, edgeVars, healthVars>>

\* The limiter enabled, with its store reachable and empty.
InitRateSpec ==
    /\ services = {"auth"}
    /\ InitRuntime
    /\ strategy = "round_robin"
    /\ InitDiscovery({"auth"})
    /\ InitEdge
    /\ InitRate
    /\ InitHealth

NextRate ==
    \/ \E c \in Clients : RateRequest(c)
    \/ RateTick

SpecRate == InitRateSpec /\ [][NextRate]_vars

\* ------------------------------------------------------- health service

\* HealthService.cache_duration
cache_duration == 30

\* timedelta.seconds of the difference d >= 0 of two datetimes, d in whole
\* seconds: the seconds left over after the whole days.
Seconds(d) == d % 86400

\* get_services_health: the test that lets it return the cached result.
CacheIsFresh(last, t) == last # NoCheck /\ Seconds(t - last) < cache_duration

\* get_services_health: the result of fresh probes of the configured
\* services at second t.
ProbeAll(cfg, up, t) ==
    LET h == [s \in cfg |-> HealthCheckService(cfg, up, s)]
    IN [overall_status |-> IF \A s \in cfg : h[s] = "healthy"
                           THEN "healthy" ELSE "degraded",
        services |-> h,
        last_check |-> t]

\* HealthService.get_services_health
GetServicesHealth ==
    /\ IF CacheIsFresh(last_check_time, now)
       THEN /\ healthReply' = [at |-> now, result |-> cached_health_status]
            /\ UNCHANGED <<last_check_time, cached_health_status>>
       ELSE LET fresh == ProbeAll(services, healthyUrls, now)
            IN /\ cached_health_status' = fresh
               /\ last_check_time' = now
               /\ healthReply' = [at |-> now, result |-> fresh]
    /\ UNCHANGED <<proxyVars, discVars, edgeVars, rateVars>>

\* The seconds that pass between two events at the health service.
HealthSteps == {10, 30, 86400}

\* Wall-clock time passes at the health service.
HealthTick(d) ==
    /\ now + d <= HealthMaxTime
    /\ Seconds(now + d) <= HealthMaxSecond
    /\ now' = now + d
    /\ UNCHANGED <<services, breakers, pc, target, admitted, invocations, streak,
                   failedSince, requestCount, response>>
    /\ UNCHANGED nonProxyVars

\* A gateway configured with two backend services answers health requests
\* while the backends go down and come up.
InitHealthSpec ==
    /\ services = {"auth", "sms"}
    /\ InitRuntime
    /\ strategy = "round_robin"
    /\ InitDiscovery({"auth", "sms"})
    /\ InitEdge
    /\ InitRate
    /\ InitHealth

NextHealth ==
    \/ GetServicesHealth
    \/ \E d \in HealthSteps : HealthTick(d)
    \/ \E s \in services : ToggleBackend(ConfigUrl(s))

SpecHealth == InitHealthSpec /\ [][NextHealth]_vars

\* ------------------------------------------------------ healed backend

\* The outcomes of a backend that answers every call.
SuccessOutcomes == {o \in Outcomes : o.kind = "response"}

\* The breaker of a service whose calls failed failure_threshold times in
\* a row at second t, after n successes.
OpenedBreaker(t, n) ==
    [state |-> "open", failure_count |-> failure_threshold, success_count |-> n,
     last_failure_time |-> t, last_success_time |-> IF n = 0 THEN 0 ELSE t,
     total_requests |-> failure_threshold + n]

\* The breaker of "auth" has just opened, no call is in flight, and from
\* here on the backend answers every call.
InitHeal ==
    /\ services = {"auth"}
    /\ now = 1
    /\ \E n \in 0..1 :
          breakers = [s \in Names |-> IF s = "auth" THEN OpenedBreaker(1, n) ELSE NoBreaker]
    /\ pc = [t \in Tasks |-> "idle"]
    /\ target = [t \in Tasks |-> "-"]
    /\ admitted = [t \in Tasks |-> "-"]
    /\ invocations = [s \in Names |-> 0]
    /\ streak = [s \in Names |-> IF s = "auth" THEN failure_threshold ELSE 0]
    /\ failedSince = [s \in Names |-> IF s = "auth" THEN failure_threshold ELSE 0]
    /\ requestCount = [s \in Names |-> IF s = "auth"
                                       THEN breakers[s].total_requests ELSE 0]
    /\ response = NoResponse
    /\ strategy = "round_robin"
    /\ InitDiscovery({"auth"})
    /\ InitEdge
    /\ InitRate
    /\ InitHealth

\* Calls of "auth" arrive and are rejected or admitted; admitted calls succeed.
HealArrives == \E t \in Tasks : EnterRejected(t, "auth") \/ EnterAdmitted(t, "auth")
HealAdmits == \E t \in Tasks : EnterAdmitted(t, "auth")
HealCompletes == \E t \in Tasks, o \in SuccessOutcomes : Complete(t, o)

NextHeal ==
    \/ HealArrives
    \/ HealCompletes
    \/ Tick

\* Time keeps advancing, calls keep arriving and the backend keeps
\* answering them: the event loop runs every coroutine that is ready.
SpecHeal ==
    /\ InitHeal
    /\ [][NextHeal]_vars
    /\ WF_vars(Tick)
    /\ WF_vars(HealAdmits)
    /\ WF_vars(HealCompletes)

\* ----------------------------------------------------------------- claims

\* Task t starts a proxy_request for service s in this step: it is admitted
\* to the backend call, or it is answered at once.
CallArrives(t, s) ==
    /\ pc[t] = "idle"
    /\ \/ pc'[t] = "inflight" /\ target'[t] = s
       \/ response' # response /\ response'.task = t /\ response'.service = s

\* The backend call of task t ends in this step.
Completes(t) == pc[t] = "inflight" /\ pc'[t] = "idle"

\* The breaker of s is Open and its recovery timeout has not elapsed.
OpenWithin(s) ==
    /\ breakers[s].state = "open"
    /\ now - breakers[s].last_failure_time < recovery_timeout

\* The breaker of s is Open and its recovery timeout has elapsed.
OpenElapsed(s) ==
    /\ breakers[s].state = "open"
    /\ now - breakers[s].last_failure_time >= recovery_timeout

\* C1: the failure_threshold-th consecutive failed call on a breaker that
\* was Closed with failure_count 0 leaves the breaker Open, and a call that
\* arrives next, before recovery_timeout has elapsed, is not admitted to the
\* protected operation.
C1_ThresholdFailuresOpen ==
    [][\A s \in Names :
        /\ (streak[s] = failure_threshold - 1 /\ streak'[s] = failure_threshold)
              => breakers'[s].state = "open"
        /\ \A t \in Tasks :
              (/\ streak[s] = failure_threshold
               /\ now - breakers[s].last_failure_time < recovery_timeout
               /\ CallArrives(t, s))
              => /\ invocations'[s] = invocations[s]
                 /\ pc'[t] = "idle"]_vars

C1_Witness ==
    /\ streak["auth"] = failure_threshold
    /\ breakers["auth"].state = "open"
    /\ response.service = "auth"
    /\ response.exc = "CircuitBreakerOpenException"

\* C2: while a breaker is Open and now - last_failure_time < recovery_timeout,
\* every call that arrives is answered with the circuit-open error and the
\* operation's invocation count is the same after the call as before.
C2_OpenRejectsWithoutInvoking ==
    [][\A s \in Names, t \in Tasks :
        (OpenWithin(s) /\ CallArrives(t, s))
        => /\ response'.exc = "CircuitBreakerOpenException"
           /\ response'.task = t
           /\ invocations' = invocations
           /\ pc'[t] = "idle"]_vars

C2_Witness ==
    /\ response.exc = "CircuitBreakerOpenException"
    /\ breakers[response.service].state = "open"
    /\ now - breakers[response.service].last_failure_time = TickStep
    /\ invocations[response.service] = breakers[response.service].total_requests

\* C3: a call that fails while the breaker is Half-Open leaves the breaker
\* Open.
C3_HalfOpenFailureReopens ==
    [][\A s \in Names :
        (/\ breakers[s].state = "half_open"
         /\ breakers'[s].failure_count = breakers[s].failure_count + 1)
        => breakers'[s].state = "open"]_vars

\* C4: at most one call admitted while the breaker was Half-Open is in
\* flight at a time.
C4_SingleProbeInFlight ==
    \A s \in Names :
        Cardinality({t \in Tasks : /\ pc[t] = "inflight"
                                   /\ target[t] = s
                                   /\ admitted[t] = "half_open"}) <= 1

\* C5: a call that arrives at an Open breaker whose recovery timeout has
\* elapsed moves it to Half-Open and invokes the operation once; the state
\* leaves Open in no other step.
C5_OpenLeavesOnlyByProbe ==
    [][\A s \in Names :
        breakers[s].state = "open"
        => /\ \A t \in Tasks :
                (OpenElapsed(s) /\ CallArrives(t, s))
                => /\ breakers'[s].state = "half_open"
                   /\ invocations'[s] = invocations[s] + 1
                   /\ pc'[t] = "inflight"
           /\ breakers'[s].state # "open"
                => /\ breakers'[s].state = "half_open"
                   /\ \E t \in Tasks : OpenElapsed(s) /\ CallArrives(t, s)]_vars

C5_Witness ==
    \E t \in Tasks :
        /\ pc[t] = "inflight"
        /\ admitted[t] = "half_open"
        /\ breakers[target[t]].state = "half_open"
        /\ breakers[target[t]].failure_count = failure_threshold

\* C6: every step that changes a breaker's state to Closed leaves its
\* failure_count 0, and a call that succeeds while the breaker is Half-Open
\* is such a step.
C6_ClosedMeansCountZero ==
    [][\A s \in Names :
        /\ (breakers[s].state # "closed" /\ breakers'[s].state = "closed")
              => breakers'[s].failure_count = 0
        /\ (/\ breakers[s].state = "half_open"
            /\ breakers'[s].success_count = breakers[s].success_count + 1)
              => /\ breakers'[s].state = "closed"
                 /\ breakers'[s].failure_count = 0]_vars

C6_Witness ==
    /\ breakers["auth"].state = "closed"
    /\ breakers["auth"].failure_count = 0
    /\ breakers["auth"].last_failure_time > 0
    /\ response.outcome.kind = "response"

\* C7: when the backend answers with a 4xx or 5xx status, the gateway's
\* answer has the backend's status code and body, and the breaker counts the
\* call as a success: failure_count is not incremented.
C7_BackendErrorPassesThrough ==
    [][\A t \in Tasks :
        (/\ Completes(t)
         /\ response'.outcome.kind = "response"
         /\ response'.outcome.status >= 400)
        => /\ response'.task = t
           /\ response'.status = response'.outcome.status
           /\ response'.body = response'.outcome.body
           /\ breakers'[target[t]].failure_count <= breakers[target[t]].failure_count
           /\ breakers'[target[t]].success_count
                 = breakers[target[t]].success_count + 1]_vars

C7_Witness ==
    /\ response.outcome.kind = "response"
    /\ response.outcome.status = 404
    /\ response.status = 404
    /\ response.body = "b2"
    /\ breakers[response.service].state = "closed"
    /\ breakers[response.service].failure_count = failure_threshold - 1

\* C8: when the backend call times out, the gateway answers 504 and the
\* breaker's failure_count grows by exactly one.
C8_TimeoutIs504AndCounts ==
    [][\A t \in Tasks :
        (Completes(t) /\ IsInstance(response'.outcome.exc, "TimeoutException"))
        => /\ response'.task = t
           /\ response'.status = 504
           /\ breakers'[target[t]].failure_count
                 = breakers[target[t]].failure_count + 1]_vars

C8_Witness ==
    /\ response.outcome.exc = "ReadTimeout"
    /\ response.status = 504
    /\ breakers[response.service].failure_count = 1

\* C9: a request for a service name that is not configured is answered 404,
\* invokes no backend call, and leaves the breaker map as it was.
C9_UnknownServiceIs404 ==
    [][\A s \in Names, t \in Tasks :
        (s \notin services /\ CallArrives(t, s))
        => /\ response'.status = 404
           /\ response'.detail = "service_not_found"
           /\ invocations' = invocations
           /\ breakers' = breakers
           /\ pc' = pc]_vars

C9_Witness ==
    /\ response.service = "nosuch"
    /\ response.status = 404
    /\ breakers["nosuch"] = NoBreaker
    /\ breakers["auth"].state = "open"

\* The status the error taxonomy gives a failure of class e.
TaxonomyStatus(e) ==
    IF e = "CircuitBreakerOpenException" THEN 503
    ELSE IF IsInstance(e, "TimeoutException") THEN 504
    ELSE IF IsInstance(e, "ConnectError") THEN 503
    ELSE 502

\* C10: every failure of the protected call is answered with one gateway
\* status: circuit-open 503, timeout 504, connection failure 503, any other
\* exception 502; no exception leaves proxy_request untranslated.
C10_FailuresTranslated ==
    response.exc # "-"
    => /\ response.service \in services
       /\ response.detail # "escaped"
       /\ response.status = TaxonomyStatus(response.exc)

C10_Witness ==
    /\ response.exc = "ReadError"
    /\ response.status = 502

\* C11: a call rejected because the breaker is Open leaves every field of
\* the breaker as it was: state, failure_count, success_count,
\* total_requests, last_failure_time and last_success_time.
C11_RejectionChangesNothing ==
    [][\A s \in Names, t \in Tasks :
        (CallArrives(t, s) /\ response'.exc = "CircuitBreakerOpenException")
        => /\ breakers'[s].state = "open"
           /\ breakers'[s] = breakers[s]]_vars

C11_Witness ==
    /\ response.exc = "CircuitBreakerOpenException"
    /\ breakers[response.service].state = "open"
    /\ breakers[response.service].success_count = 1
    /\ breakers[response.service].total_requests = failure_threshold + 1
    /\ breakers[response.service].last_success_time > 0

\* C12: under round_robin, while the list of healthy instances of a service
\* stays the same (N of them), any N consecutive lookups return N different
\* healthy instances, that is each of them once, and the lookup after them
\* returns the instance the first of them returned.
C12_RoundRobinCycles ==
    strategy = "round_robin"
    => \A s \in Names :
         LET q == picks[s]
             h == UrlsOf(HealthyOf(instances[s]))
             N == Len(h)
         IN /\ \A k \in DOMAIN q : q[k] \in Range(h)
            /\ \A k, j \in DOMAIN q : (k < j /\ j - k < N) => q[k] # q[j]
            /\ Len(q) = N + 1 => q[N + 1] = q[1]

C12_Witness ==
    /\ strategy = "round_robin"
    /\ \E s \in Names :
          /\ Len(HealthyOf(instances[s])) = 2
          /\ Len(instances[s]) = 3
          /\ Len(picks[s]) = 3
          /\ picks[s][1] # HealthyOf(instances[s])[1].url

C14_PicksHealthyOrFirst ==
    picked.service # "-"
    => LET all == instances[picked.service]
           h == HealthyOf(all)
       IN /\ h # <<>> => (picked.instance \in Range(all) /\ picked.instance.is_healthy)
          /\ (all # <<>> /\ h = <<>>) => picked.instance = all[1]
          /\ picked.instance = NoInstance <=> all = <<>>

C14_Witness ==
    /\ picked.service # "-"
    /\ Len(instances[picked.service]) >= 2
    /\ HealthyOf(instances[picked.service]) = <<>>
    /\ picked.instance = instances[picked.service][1]
    /\ strategy = "random"

\* The headers of the request being handled, as it came in.
Inbound(name) == HeaderGet(edgeReq.headers, name)

\* The request has been handed to proxy_request or make_request and its
\* outbound headers are prepared.
Forwarded == edgeVia # "-" /\ edgeOut # NoHeaders

\* C15: when a request that carries "Authorization: Bearer <token>" is
\* forwarded to a backend, by proxy_request or by make_request, the outbound
\* request carries an Authorization header, and every Authorization header
\* it carries has exactly the inbound value.
C15_BearerForwardedUnchanged ==
    (Forwarded /\ StartsWith(Inbound("Authorization"), "Bearer "))
    => /\ Copies(edgeOut, "Authorization") # {}
       /\ \A k \in Copies(edgeOut, "Authorization") : edgeOut[k] = Inbound("Authorization")

C15_Witness ==
    /\ edgeVia = "proxy"
    /\ edgePc = "backend"
    /\ Inbound("Authorization") = "Bearer two words"
    /\ Copies(edgeOut, "Authorization") = {"authorization", "Authorization"}

FailingCredentials(req) ==
    LET a == HeaderGet(req.headers, "Authorization")
        k == HeaderGet(req.headers, "X-API-Key")
    IN IF Truthy(a)
       THEN ~(StartsWith(a, "Bearer ") /\ VerifyToken(AfterFirstSpace(a)))
       ELSE Truthy(k) /\ ~ValidateApiKey(k)

FailureCount(b) == IF b = NoBreaker THEN 0 ELSE b.failure_count

\* C18: a request to a proxied route with credentials that fail
\* authentication never enters proxy_request, is answered with a 4xx, and
\* no step of its handling changes a breaker's failure_count.
C18_FailedAuthStopsAtEdge ==
    [][(edgeReq'.route.handler = "proxy" /\ FailingCredentials(edgeReq'))
       => /\ edgeVia' = "-"
          /\ edgePc' = "done" => edgeResp'.status \in 400..499
          /\ \A s \in Names : FailureCount(breakers'[s]) = FailureCount(breakers[s])]_vars

\* C20: whichever of proxy_request and make_request ran the backend call, a
\* step raises a breaker's failure_count only when that call ended with an
\* exception (the backend was not reached or timed out), never when the
\* backend answered, whatever the status.
C20_OnlyFailuresCount ==
    [][\A s \in Names :
        FailureCount(breakers'[s]) > FailureCount(breakers[s])
        => edgeOutcome'.kind = "raise"]_vars

\* C17: in every window of rate_limit_window seconds, the requests of one
\* client the limiter hands on to the next handler number at most
\* rate_limit_requests.
C17_AtMostLimitPerWindow ==
    \A c \in Clients : \A a \in RlTimes :
        SumOver(rlPassed[c], {t \in RlTimes : a <= t /\ t < a + rate_limit_window})
            <= rate_limit_requests

\* C19: with a backend that answers every call, time advancing and calls
\* arriving, a breaker that is Open eventually becomes Half-Open, and a
\* Half-Open breaker eventually becomes Closed and stays Closed.
C19_OpenEventuallyClosedForGood ==
    /\ (breakers["auth"].state = "open") ~> (breakers["auth"].state = "half_open")
    /\ (breakers["auth"].state = "half_open") ~> [](breakers["auth"].state = "closed")

C19_Witness ==
    /\ breakers["auth"].state = "closed"
    /\ breakers["auth"].failure_count = 0
    /\ breakers["auth"].last_success_time >= 1 + recovery_timeout
    /\ breakers["auth"].total_requests > failure_threshold

\* C21: the breaker of a service opens when a failed call takes its
\* failure_count to that service's own circuit_breaker_threshold, and a
\* call that arrives while it is Open is admitted as a probe once that
\* service's own circuit_breaker_timeout has elapsed since the last failure.
C21_OwnThresholdAndTimeout ==
    [][\A s \in services :
        /\ (/\ breakers[s].state = "closed"
            /\ breakers'[s].failure_count = breakers[s].failure_count + 1
            /\ breakers'[s].failure_count = circuit_breaker_threshold(s))
              => breakers'[s].state = "open"
        /\ \A t \in Tasks :
              (/\ breakers[s].state = "open"
               /\ now - breakers[s].last_failure_time >= circuit_breaker_timeout(s)
               /\ CallArrives(t, s))
              => /\ breakers'[s].state = "half_open"
                 /\ pc'[t] = "inflight"]_vars

\* C22: with the load-balancing policy "least_response_time" and at least
\* one healthy instance, get_instance returns a healthy instance whose
\* response_time is minimal among the healthy instances of the service.
C22_LeastResponseTimePicksFastest ==
    (/\ strategy = "least_response_time"
     /\ picked.service # "-"
     /\ HealthyOf(instances[picked.service]) # <<>>)
    => /\ picked.instance.is_healthy
       /\ \A i \in Range(HealthyOf(instances[picked.service])) :
             picked.instance.response_time <= i.response_time

\* C23: the backend URL proxy_request contacts for a service is the URL of
\* the instance the registry's get_instance selects for it, also after
\* add_instance, remove_instance or a change of health.
C23_ProxyFollowsRegistry ==
    (picked.service \in services /\ picked.instance # NoInstance)
    => TargetUrl(picked.service) = picked.instance.url

\* The probe of the instance with key k = <<name, url>> ends in this step.
ProbeEnds(k) == k \in pending /\ k \notin pending'

Answered(t, s) ==
    /\ response' # response
    /\ response'.task = t
    /\ response'.service = s

\* C25: every proxy_request for a configured service, whatever its outcome
\* (backend response, timeout, connection failure, other exception, or
\* rejection by an open breaker), adds a record for that service to the
\* metrics collector.
C25_EveryRequestRecorded ==
    [][\A t \in Tasks, s \in services :
        Answered(t, s) => requestCount'[s] = requestCount[s] + 1]_vars

\* A call() on the breaker of service s acts in this step: it is entered
\* (and admitted or rejected), or its protected operation ends.
CallActs(s) ==
    \E t \in Tasks : CallArrives(t, s) \/ (Completes(t) /\ target[t] = s)

\* C26: a step of a call() on the breaker of one service, be it admitted,
\* rejected, succeeding or failing, leaves the breaker of every other
\* service as it was; and whatever the other breakers and the calls in
\* flight on them are doing, a call for a configured service can be entered.
C26_BreakersIndependent ==
    [][/\ \A a \in services :
             CallActs(a) => \A b \in Names \ {a} : breakers'[b] = breakers[b]
       /\ \A t \in Tasks, b \in services :
             (pc[t] = "idle" /\ SumOver(invocations, Names) < PairMaxCalls)
             => ENABLED (EnterRejected(t, b) \/ EnterAdmitted(t, b))]_vars

C26_Witness ==
    /\ breakers["auth"].state = "open"
    /\ response.service = "auth"
    /\ response.exc = "CircuitBreakerOpenException"
    /\ breakers["sms"].state = "closed"
    /\ \E t \in Tasks : pc[t] = "inflight" /\ target[t] = "sms"

\* C27: while a breaker is Closed a successful call leaves failure_count as
\* it was, and the failed call that brings the number of failed calls since
\* the breaker last became Closed to failure_threshold opens it, however
\* many successful calls lie between those failures.
C27_SuccessKeepsCountWhileClosed ==
    [][\A s \in Names :
        breakers[s].state = "closed"
        => /\ breakers'[s].success_count = breakers[s].success_count + 1
                => breakers'[s].failure_count = breakers[s].failure_count
           /\ (/\ failedSince[s] = failure_threshold - 1
               /\ failedSince'[s] = failure_threshold)
                => breakers'[s].state = "open"]_vars

C27_Witness ==
    /\ breakers["auth"].state = "open"
    /\ failedSince["auth"] = failure_threshold
    /\ streak["auth"] = -1
    /\ breakers["auth"].success_count >= 1
    /\ breakers["auth"].last_failure_time > breakers["auth"].last_success_time

\* The instances of service k[1] with URL k[2] in the list q.
InstancesAt(q, k) == {j \in DOMAIN q : q[j].url = k[2]}

\* C28: the health a probe records on a ServiceInstance reflects that
\* instance's own URL: when the probe of an instance ends, the instance is
\* healthy with failure_count 0 if the backend at its URL answers its
\* health path, and has one more failure if it does not.
C28_ProbeJudgesOwnEndpoint ==
    [][\A k \in Names \X Urls :
        ProbeEnds(k)
        => \A j \in InstancesAt(instances[k[1]], k) \cap InstancesAt(instances'[k[1]], k) :
              LET old == instances[k[1]][j]
                  new == instances'[k[1]][j]
              IN IF k[2] \in healthyUrls
                 THEN new.is_healthy /\ new.failure_count = 0
                 ELSE new.failure_count = old.failure_count + 1]_vars

\* C29: after any sequence of gateway requests, every name the
\* CircuitBreakerManager holds a breaker for is a configured service name.
C29_BreakersOnlyForConfigured ==
    \A s \in Names : breakers[s] # NoBreaker => s \in services

\* C30: a call of get_services_health made cache_duration seconds or more
\* after the cached result was computed, however long after, or before any
\* result was computed, performs fresh probes, replaces the cache and
\* returns the new result; the cached result is returned only within
\* cache_duration seconds of its computation.
C30_StaleCacheIsReplaced ==
    [][(/\ healthReply' # healthReply
        /\ \/ last_check_time = NoCheck
           \/ now - last_check_time >= cache_duration)
       => /\ last_check_time' = now
          /\ cached_health_status'.last_check = now
          /\ healthReply'.result = cached_health_status']_vars

====
